---- MODULE Spec2Model ----
(***************************************************************************)
(* A model of app.py, the Streamlit poster-analysis tool: the per-image    *)
(* feature extractor (analyze_image_with_gemini), the batch loop run by    *)
(* the start button, the metrics join of the display block and the report  *)
(* button.  The script runs top to bottom once per user interaction; the   *)
(* session's result list survives between runs, everything else is         *)
(* recomputed.  Text is modelled as sequences of characters or tokens so   *)
(* that substring tests, replacements and conversions are computed.        *)
(***************************************************************************)
EXTENDS Integers, Sequences, FiniteSets, TLC

\* ------------------------------------------------------------------ bounds
MaxImages == 2
MaxRows == 2

\* ------------------------------------------------- sequences, generically
RECURSIVE SeqsUpTo(_, _)
SeqsUpTo(S, n) ==
    IF n = 0 THEN {<<>>}
    ELSE LET shorter == SeqsUpTo(S, n - 1)
         IN  shorter \cup {Append(s, x) : s \in {t \in shorter : Len(t) = n - 1}, x \in S}

Range(s) == {s[i] : i \in 1..Len(s)}

IndexOf(s, x) == CHOOSE i \in 1..Len(s) : s[i] = x /\ \A j \in 1..(i - 1) : s[j] # x

\* ------------------------------------------------------------ text values
\* A string is a sequence of characters.  A non-ASCII character is written
\* by its code point: U540D is the character of token 1, U6587 U4EF6 the two
\* characters of token 4 (line 130).
cFilename == <<"f", "i", "l", "e", "n", "a", "m", "e">>
cMainColor == <<"m", "a", "i", "n", "_", "c", "o", "l", "o", "r">>
cID == <<"I", "D">>
cFileName == <<"F", "i", "l", "e", " ", "N", "a", "m", "e">>
cClicks == <<"C", "l", "i", "c", "k", "s">>
cNAME == <<"N", "A", "M", "E">>
cName == <<"N", "a", "m", "e">>
cWenJianMing == <<"U6587", "U4EF6", "U540D">>
cApng == <<"a", ".", "p", "n", "g">>
cBpng == <<"b", ".", "p", "n", "g">>
cBlue == <<"b", "l", "u", "e">>

\* A scalar (a cell value or a column label): a string, an integer or NaN.
Sv(chars) == [k |-> "str", s |-> chars, n |-> 0]
Iv(i) == [k |-> "int", s |-> <<>>, n |-> i]
NaN == [k |-> "nan", s |-> <<>>, n |-> 0]

DigitChar(d) == <<"0", "1", "2", "3", "4", "5", "6", "7", "8", "9">>[d + 1]

RECURSIVE Digits(_)
Digits(i) == IF i < 10 THEN <<DigitChar(i)>> ELSE Digits(i \div 10) \o <<DigitChar(i % 10)>>

\* str(x) / Series.astype(str) of a scalar (lines 130, 135, 136).
Str(v) ==
    CASE v.k = "str" -> v.s
      [] v.k = "int" -> Digits(v.n)
      [] OTHER -> <<"n", "a", "n">>

\* Python truthiness of a scalar (line 134: if metric_key).
Truthy(v) ==
    CASE v.k = "str" -> Len(v.s) > 0
      [] v.k = "int" -> v.n # 0
      [] OTHER -> TRUE

\* x in s for strings: s has x as a contiguous substring (line 130).
Contains(s, x) == \E i \in 0..(Len(s) - Len(x)) : SubSeq(s, i + 1, i + Len(x)) = x

\* str.replace(pat, "") : every non-overlapping occurrence, left to right.
RECURSIVE StrRemove(_, _)
StrRemove(s, pat) ==
    IF Len(s) < Len(pat) THEN s
    ELSE IF SubSeq(s, 1, Len(pat)) = pat
         THEN StrRemove(SubSeq(s, Len(pat) + 1, Len(s)), pat)
         ELSE <<Head(s)>> \o StrRemove(Tail(s), pat)

\* ------------------------------------------------------------------- JSON
\* A parsed JSON value: an object is an ordered list of key/value items (a
\* Python dict keeps insertion order); the other kinds carry no content here.
Item(key, val) == [key |-> key, val |-> val]
JObject(items) == [j |-> "object", items |-> items]
JOther(kind) == [j |-> kind, items |-> <<>>]

\* Two answers of the model: an object that names a file itself (the poster
\* a.png, whichever poster was sent) and an object with no field at all.
ObjNamingA == JObject(<<Item(cFilename, Sv(cApng)), Item(cMainColor, Sv(cBlue))>>)
ObjEmpty == JObject(<<>>)

\* The reply text, as tokens: the three backticks, the word json, a newline,
\* free prose, a well-formed JSON document, or a broken piece of JSON.
TFence == [t |-> "fence", doc |-> JOther("none")]
TJsonWord == [t |-> "json", doc |-> JOther("none")]
TNewline == [t |-> "nl", doc |-> JOther("none")]
TProse == [t |-> "prose", doc |-> JOther("none")]
TBroken == [t |-> "broken", doc |-> JOther("none")]
TDoc(d) == [t |-> "doc", doc |-> d]

Bare(d) == <<TDoc(d)>>
FencedJson(d) == <<TFence, TJsonWord, TNewline, TDoc(d), TNewline, TFence>>
FencedPlain(d) == <<TFence, TNewline, TDoc(d), TNewline, TFence>>

\* What the hosted model may answer to one extraction call.  kind is the
\* environment's own description of the answer; the code never reads it.
Reply(kind, raises, text) == [kind |-> kind, raises |-> raises, text |-> text]

Replies ==
    { Reply("object", FALSE, FencedJson(ObjNamingA)),
      Reply("object", FALSE, Bare(ObjNamingA)),
      Reply("object", FALSE, FencedPlain(ObjEmpty)),
      Reply("array", FALSE, FencedJson(JOther("array"))),
      Reply("null", FALSE, Bare(JOther("null"))),
      Reply("string", FALSE, Bare(JOther("string"))),
      Reply("malformed", FALSE, <<TProse, TNewline>> \o FencedJson(ObjNamingA)),
      Reply("malformed", FALSE, <<TFence, TJsonWord, TNewline, TBroken, TNewline, TFence>>),
      Reply("empty", FALSE, <<>>),
      Reply("api error", TRUE, <<>>),
      Reply("image data unreadable", TRUE, <<>>) }

\* The reply is a JSON object, possibly inside a Markdown code fence.
IsObjectReply(r) == r.kind = "object"

\* str.strip(): leading and trailing whitespace removed (line 81).
RECURSIVE LStrip(_)
LStrip(s) == IF s # <<>> /\ Head(s) = TNewline THEN LStrip(Tail(s)) ELSE s

RECURSIVE RStrip(_)
RStrip(s) == IF s # <<>> /\ s[Len(s)] = TNewline THEN RStrip(SubSeq(s, 1, Len(s) - 1)) ELSE s

Strip(s) == RStrip(LStrip(s))

\* Line 81: response.text.replace("```json", "").replace("```", "").strip()
CleanText(text) == Strip(StrRemove(StrRemove(text, <<TFence, TJsonWord>>), <<TFence>>))

\* A Python value or a raised exception.
Value(v) == [exc |-> "none", val |-> v]
Raise(name) == [exc |-> name, val |-> JOther("none")]

\* Line 82: json.loads: exactly one well-formed document, else JSONDecodeError.
JsonLoads(clean) ==
    IF Len(clean) = 1 /\ clean[1].t = "doc"
    THEN Value(clean[1].doc)
    ELSE Raise("JSONDecodeError")

HasKey(items, key) == \E i \in 1..Len(items) : items[i].key = key

\* dict[key] = val: in place when the key exists, appended otherwise.
SetItem(items, key, val) ==
    IF HasKey(items, key)
    THEN [i \in 1..Len(items) |-> IF items[i].key = key THEN Item(key, val) ELSE items[i]]
    ELSE Append(items, Item(key, val))

\* A variant of StampFilename that keeps a filename the model supplied
\* (dict.setdefault instead of assignment).
StampFilename_KeepModels(data, filename) ==
    IF data.j = "object"
    THEN Value(JObject(IF HasKey(data.items, cFilename) THEN data.items
                       ELSE Append(data.items, Item(cFilename, Sv(filename)))))
    ELSE Raise("TypeError")

\* Line 83: data['filename'] = filename; only a dict accepts a string key.
StampFilename(data, filename) ==
    IF data.j = "object"
    THEN Value(JObject(SetItem(data.items, cFilename, Sv(filename))))
    ELSE Raise("TypeError")

\* Lines 80-84, the body of the try block, for the answer r of the model.
TryBody(filename, r) ==
    IF r.raises THEN Raise("APIError")
    ELSE LET data == JsonLoads(CleanText(r.text))
         IN  IF data.exc # "none" THEN data ELSE StampFilename(data.val, filename)

None == [some |-> FALSE, items |-> <<>>]
Some(items) == [some |-> TRUE, items |-> items]

\* Lines 79-87: the record, or None with one st.error naming the file.
analyze_image_with_gemini(filename, r) ==
    LET out == TryBody(filename, r)
    IN  IF out.exc = "none"
        THEN [result |-> Some(out.val.items), errors |-> <<>>]
        ELSE [result |-> None, errors |-> <<filename>>]

\* Line 109: if result: None and the empty dict are falsy.
ResultTruthy(result) == result.some /\ Len(result.items) > 0

\* ----------------------------------------------------------------- tables
\* A DataFrame: column labels and rows of cells, each row aligned to them.
Table(columns, rows) == [columns |-> columns, rows |-> rows]
NoTable == Table(<<>>, <<>>)

ValueOf(items, key) == items[CHOOSE i \in 1..Len(items) : items[i].key = key].val

\* The keys of the records in order of first appearance.
RECURSIVE UnionKeys(_, _)
UnionKeys(records, seen) ==
    IF records = <<>> THEN seen
    ELSE LET items == Head(records)
             fresh == SelectSeq([i \in 1..Len(items) |-> items[i].key],
                                LAMBDA k : k \notin Range(seen))
         IN  UnionKeys(Tail(records), seen \o fresh)

\* Line 123: pd.DataFrame(list of dicts): one row per dict, NaN where a dict
\* lacks a key.
DataFrame(records) ==
    LET keys == UnionKeys(records, <<>>)
    IN  Table([c \in 1..Len(keys) |-> Sv(keys[c])],
              [r \in 1..Len(records) |->
                  [c \in 1..Len(keys) |->
                      IF HasKey(records[r], keys[c]) THEN ValueOf(records[r], keys[c]) ELSE NaN]])

\* Line 130: the tokens looked for in a column name.
Tokens == {<<"U540D">>, <<"n", "a", "m", "e">>, <<"N", "a", "m", "e">>, <<"U6587", "U4EF6">>}

\* Line 130: any(x in str(col) for x in [...])
Qualifies(col) == \E x \in Tokens : Contains(Str(col), x)

\* Lines 128-132: metric_key = None; for col in columns: if ...: metric_key = col; break
RECURSIVE ScanColumns(_, _)
ScanColumns(columns, i) ==
    IF i > Len(columns) THEN [found |-> FALSE, col |-> NaN]
    ELSE IF Qualifies(columns[i]) THEN [found |-> TRUE, col |-> columns[i]]
         ELSE ScanColumns(columns, i + 1)

\* A variant of DetectKey without the break of line 132: the last qualifying
\* column wins.
RECURSIVE ScanColumnsBack(_, _)
ScanColumnsBack(columns, i) ==
    IF i < 1 THEN [found |-> FALSE, col |-> NaN]
    ELSE IF Qualifies(columns[i]) THEN [found |-> TRUE, col |-> columns[i]]
         ELSE ScanColumnsBack(columns, i - 1)

DetectKey_Last(columns) == ScanColumnsBack(columns, Len(columns))

DetectKey(columns) == ScanColumns(columns, 1)

\* Lines 135-136: df[col] = df[col].astype(str)
AsTypeStr(df, col) ==
    LET c == IndexOf(df.columns, col)
    IN  Table(df.columns,
              [r \in 1..Len(df.rows) |->
                  [k \in 1..Len(df.columns) |->
                      IF k = c THEN Sv(Str(df.rows[r][k])) ELSE df.rows[r][k]]])

Suffixed(label, suffix) == Sv(Str(label) \o suffix)

RECURSIVE Flatten(_)
Flatten(ss) == IF ss = <<>> THEN <<>> ELSE Head(ss) \o Flatten(Tail(ss))

\* A variant of Merge with how='inner': a left row without a match is dropped.
Merge_Inner(left, right, left_on, right_on) ==
    LET li == IndexOf(left.columns, left_on)
        ri == IndexOf(right.columns, right_on)
        keep == SelectSeq([j \in 1..Len(right.columns) |-> j],
                          LAMBDA j : ~(left_on = right_on /\ j = ri))
        rcols == [k \in 1..Len(keep) |-> right.columns[keep[k]]]
        both == Range(left.columns) \cap Range(rcols)
        lout == [c \in 1..Len(left.columns) |->
                    IF left.columns[c] \in both
                    THEN Suffixed(left.columns[c], <<"_", "x">>) ELSE left.columns[c]]
        rout == [k \in 1..Len(rcols) |->
                    IF rcols[k] \in both THEN Suffixed(rcols[k], <<"_", "y">>) ELSE rcols[k]]
        rrow(j) == [k \in 1..Len(keep) |-> right.rows[j][keep[k]]]
        matches(i) == SelectSeq([j \in 1..Len(right.rows) |-> j],
                                LAMBDA j : right.rows[j][ri] = left.rows[i][li])
        expand(i) == [m \in 1..Len(matches(i)) |-> left.rows[i] \o rrow(matches(i)[m])]
    IN  Table(lout \o rout, Flatten([i \in 1..Len(left.rows) |-> expand(i)]))

\* Line 137: pd.merge(left, right, left_on=, right_on=, how='left').  Left
\* rows keep their order, each followed through its matches in right order; a
\* right key column named like the left key is folded into it; a label that
\* remains on both sides gets the suffixes _x (left) and _y (right).  Cells
\* keep their values; the dtype pandas gives a column is not modelled.
Merge(left, right, left_on, right_on) ==
    LET li == IndexOf(left.columns, left_on)
        ri == IndexOf(right.columns, right_on)
        keep == SelectSeq([j \in 1..Len(right.columns) |-> j],
                          LAMBDA j : ~(left_on = right_on /\ j = ri))
        rcols == [k \in 1..Len(keep) |-> right.columns[keep[k]]]
        both == Range(left.columns) \cap Range(rcols)
        lout == [c \in 1..Len(left.columns) |->
                    IF left.columns[c] \in both
                    THEN Suffixed(left.columns[c], <<"_", "x">>) ELSE left.columns[c]]
        rout == [k \in 1..Len(rcols) |->
                    IF rcols[k] \in both THEN Suffixed(rcols[k], <<"_", "y">>) ELSE rcols[k]]
        rrow(j) == [k \in 1..Len(keep) |-> right.rows[j][keep[k]]]
        nulls == [k \in 1..Len(keep) |-> NaN]
        matches(i) == SelectSeq([j \in 1..Len(right.rows) |-> j],
                                LAMBDA j : right.rows[j][ri] = left.rows[i][li])
        expand(i) == IF matches(i) = <<>>
                     THEN <<left.rows[i] \o nulls>>
                     ELSE [m \in 1..Len(matches(i)) |-> left.rows[i] \o rrow(matches(i)[m])]
    IN  Table(lout \o rout, Flatten([i \in 1..Len(left.rows) |-> expand(i)]))

\* Line 148: DataFrame.to_csv(index=False): a header line, then one line per
\* row; every cell as text, a missing value as the empty string.
ToCsv(df) ==
    <<[c \in 1..Len(df.columns) |-> Str(df.columns[c])]>> \o
    [r \in 1..Len(df.rows) |->
        [c \in 1..Len(df.columns) |->
            IF df.rows[r][c].k = "nan" THEN <<>> ELSE Str(df.rows[r][c])]]

\* A variant of JoinMetrics whose warning is not nested under the test of
\* line 127: it also appears when there is no spreadsheet.
JoinMetrics_WarnWhenAbsent(df_vision, df_metrics) ==
    IF ~df_metrics.some
    THEN [final_df |-> df_vision, message |-> "warning", metric_key |-> NaN]
    ELSE LET hit == DetectKey(df_metrics.table.columns)
         IN  IF hit.found /\ Truthy(hit.col)
             THEN [final_df |-> Merge(AsTypeStr(df_vision, Sv(cFilename)),
                                      AsTypeStr(df_metrics.table, hit.col),
                                      Sv(cFilename), hit.col),
                   message |-> "info", metric_key |-> hit.col]
             ELSE [final_df |-> df_vision, message |-> "warning", metric_key |-> NaN]

\* Lines 126-140: the join of the display block.  df_metrics is None or a
\* table; the message is the st.info of line 138 or the st.warning of 140.
JoinMetrics(df_vision, df_metrics) ==
    IF ~df_metrics.some
    THEN [final_df |-> df_vision, message |-> "none", metric_key |-> NaN]
    ELSE LET hit == DetectKey(df_metrics.table.columns)
         IN  IF hit.found /\ Truthy(hit.col)
             THEN [final_df |-> Merge(AsTypeStr(df_vision, Sv(cFilename)),
                                      AsTypeStr(df_metrics.table, hit.col),
                                      Sv(cFilename), hit.col),
                   message |-> "info", metric_key |-> hit.col]
             ELSE [final_df |-> df_vision, message |-> "warning", metric_key |-> NaN]

\* ----------------------------------------------------------------- inputs
\* An uploaded image file, by its name; whether PIL can identify its content
\* is found out when the file is opened.
ImageFiles == [name : {cApng, cBpng}]
ImageLists == SeqsUpTo(ImageFiles, MaxImages)

\* Column layouts of the uploaded spreadsheets; namecol is the column the
\* spreadsheet's author put the file names in.
LayoutExample == [columns |-> <<Sv(cID), Sv(cFileName), Sv(cClicks)>>, namecol |-> 2]
LayoutNoKey == [columns |-> <<Sv(cID), Sv(cClicks)>>, namecol |-> 1]
LayoutSameKey == [columns |-> <<Sv(cNAME), Sv(cFilename), Sv(cClicks)>>, namecol |-> 2]
LayoutTwoKeys == [columns |-> <<Sv(cWenJianMing), Sv(cName), Sv(cMainColor)>>, namecol |-> 1]
LayoutWrongKey == [columns |-> <<Iv(7), Sv(cName), Sv(cFilename)>>, namecol |-> 3]

Layouts == {LayoutExample, LayoutNoKey, LayoutSameKey, LayoutTwoKeys, LayoutWrongKey}

\* What a cell of the name column may hold; every other cell is a number.
KeyValues == {Sv(cApng), Sv(cBpng), Iv(7)}

Sheet(layout, keys) ==
    Table(layout.columns,
          [r \in 1..Len(keys) |->
              [c \in 1..Len(layout.columns) |->
                  IF c = layout.namecol THEN keys[r] ELSE Iv(10 * r)]])

MetricsTables == {Sheet(l, ks) : l \in Layouts, ks \in SeqsUpTo(KeyValues, MaxRows)}

NoFile == [present |-> FALSE, loads |-> FALSE, table |-> NoTable]
Unreadable == [present |-> TRUE, loads |-> FALSE, table |-> NoTable]
Readable(t) == [present |-> TRUE, loads |-> TRUE, table |-> t]

DataFiles == {NoFile, Unreadable} \cup {Readable(t) : t \in MetricsTables}

\* The spreadsheets tried within a whole session: none, a broken one, the
\* example sheet and a sheet without a name column.
SessionDataFiles ==
    {NoFile, Unreadable,
     Readable(Sheet(LayoutExample, <<Sv(cApng)>>)),
     Readable(Sheet(LayoutNoKey, <<Sv(cApng)>>))}

ApiKeys == {"", "key"}

\* ------------------------------------------------------------------ state
VARIABLES
    api_key,            \* sidebar text input (line 17)
    uploaded_images,    \* file uploader 1 (line 39)
    uploaded_data,      \* file uploader 2 (line 40)
    analysis_results,   \* st.session_state.analysis_results
    df_metrics,         \* lines 42-48, of the current script run
    pc,                 \* where the current script run stands; "idle" between runs
    idx,                \* loop index of line 102
    total,              \* line 101
    result,             \* line 107
    status_text,        \* the st.empty() placeholder of line 99
    progress_bar,       \* the st.progress of line 98
    errors,             \* the st.error messages of line 86 shown by this run
    exception,          \* the exception that ended this run, if any
    display,            \* lines 121-142: the table shown and the join message
    report,             \* lines 145-192: the report request of this run
    batch,              \* the image list the latest batch run iterates over
    log,                \* per analysed image of that run: was the answer an object
    calls,              \* generate_content calls made by that run (line 80)
    pauses,             \* time.sleep calls made by that run (line 113)
    started,            \* a batch run has been started in this session
    discarded           \* line 97 dropped records of an earlier run when that run started

vars == <<api_key, uploaded_images, uploaded_data, analysis_results, df_metrics, pc, idx,
          total, result, status_text, progress_bar, errors, exception, display, report,
          batch, log, calls, pauses, started, discarded>>

loopVars == <<idx, total, result, batch, log, calls, pauses, started, discarded>>

NoStatus == [kind |-> "none", pos |-> 0, total |-> 0, name |-> <<>>]
NoBar == [shown |-> FALSE, done |-> 0, total |-> 0]
NoDisplay == [shown |-> FALSE, final_df |-> NoTable, message |-> "none", metric_key |-> NaN]
NoReport == [calls |-> 0, csv |-> <<>>, outcome |-> "none"]
NoMetrics == [some |-> FALSE, table |-> NoTable, error |-> FALSE]

\* Lines 42-48: df_metrics = None; read the file if there is one; a read
\* error is shown and leaves None.
LoadMetrics(file) ==
    IF ~file.present THEN NoMetrics
    ELSE IF file.loads THEN [some |-> TRUE, table |-> file.table, error |-> FALSE]
         ELSE [some |-> FALSE, table |-> NoTable, error |-> TRUE]

\* A variant of Render without the guard of line 121.
Render_Unguarded(results, metrics) ==
    LET joined == JoinMetrics(DataFrame(results), metrics)
    IN  [shown |-> TRUE, final_df |-> joined.final_df,
         message |-> joined.message, metric_key |-> joined.metric_key]

\* Lines 121-142: nothing unless the result list is non-empty.
Render(results, metrics) ==
    IF results = <<>> THEN NoDisplay
    ELSE LET joined == JoinMetrics(DataFrame(results), metrics)
         IN  [shown |-> TRUE, final_df |-> joined.final_df,
              message |-> joined.message, metric_key |-> joined.metric_key]

\* Lines 145-192: one generate_content call on the CSV of the shown table;
\* its text is rendered, or its exception reported.
GenerateReport(final_df, outcome) == [calls |-> 1, csv |-> ToCsv(final_df), outcome |-> outcome]

Init ==
    /\ api_key = ""
    /\ uploaded_images = <<>>
    /\ uploaded_data = NoFile
    /\ analysis_results = <<>>
    /\ df_metrics = NoMetrics
    /\ pc = "idle"
    /\ idx = 0
    /\ total = 0
    /\ result = None
    /\ status_text = NoStatus
    /\ progress_bar = NoBar
    /\ errors = <<>>
    /\ exception = "none"
    /\ display = NoDisplay
    /\ report = NoReport
    /\ batch = <<>>
    /\ log = <<>>
    /\ calls = 0
    /\ pauses = 0
    /\ started = FALSE
    /\ discarded = FALSE

\* A script run in which the start button was not pressed: lines 1-94 and
\* 121-192 with the widgets' new values.
Rerun(key, images, data) ==
    /\ pc = "idle"
    /\ api_key' = key
    /\ uploaded_images' = images
    /\ uploaded_data' = data
    /\ df_metrics' = LoadMetrics(data)
    /\ status_text' = NoStatus
    /\ progress_bar' = NoBar
    /\ errors' = <<>>
    /\ exception' = "none"
    /\ display' = Render(analysis_results, df_metrics')
    /\ UNCHANGED <<analysis_results, pc>>
    /\ UNCHANGED loopVars

\* The user types or clears the API key.
SetApiKey ==
    \E key \in ApiKeys \ {api_key} :
        /\ Rerun(key, uploaded_images, uploaded_data)
        /\ report' = NoReport

\* The user changes the set of uploaded posters.
UploadImages ==
    \E images \in ImageLists \ {uploaded_images} :
        /\ Rerun(api_key, images, uploaded_data)
        /\ report' = NoReport

\* The user uploads, replaces or removes the spreadsheet.
UploadData ==
    \E data \in SessionDataFiles \ {uploaded_data} :
        /\ Rerun(api_key, uploaded_images, data)
        /\ report' = NoReport

\* The report button (line 145), which exists only if the last run drew it.
ClickReport ==
    /\ display.shown
    /\ exception = "none"
    /\ Rerun(api_key, uploaded_images, uploaded_data)
    /\ \E outcome \in {"text", "error"} :
           report' = IF display'.shown
                     THEN GenerateReport(display'.final_df, outcome)
                     ELSE NoReport

\* A variant of ClickStart without line 97: the new run's records are
\* appended to the earlier ones.
ClickStart_Appending ==
    /\ pc = "idle"
    /\ uploaded_images # <<>>
    /\ api_key # ""
    /\ df_metrics' = LoadMetrics(uploaded_data)
    /\ progress_bar' = [shown |-> TRUE, done |-> 0, total |-> Len(uploaded_images)]
    /\ status_text' = NoStatus
    /\ total' = Len(uploaded_images)
    /\ idx' = 0
    /\ pc' = "status"
    /\ errors' = <<>>
    /\ exception' = "none"
    /\ display' = NoDisplay
    /\ report' = NoReport
    /\ result' = None
    /\ batch' = uploaded_images
    /\ log' = <<>>
    /\ calls' = 0
    /\ pauses' = 0
    /\ started' = TRUE
    /\ discarded' = FALSE
    /\ UNCHANGED <<api_key, uploaded_images, uploaded_data, analysis_results>>

\* The start button (line 91), enabled only with images and a key: lines
\* 96-101.
ClickStart ==
    /\ pc = "idle"
    /\ uploaded_images # <<>>
    /\ api_key # ""
    /\ df_metrics' = LoadMetrics(uploaded_data)
    /\ analysis_results' = <<>>
    /\ progress_bar' = [shown |-> TRUE, done |-> 0, total |-> Len(uploaded_images)]
    /\ status_text' = NoStatus
    /\ total' = Len(uploaded_images)
    /\ idx' = 0
    /\ pc' = "status"
    /\ errors' = <<>>
    /\ exception' = "none"
    /\ display' = NoDisplay
    /\ report' = NoReport
    /\ result' = None
    /\ batch' = uploaded_images
    /\ log' = <<>>
    /\ calls' = 0
    /\ pauses' = 0
    /\ started' = TRUE
    /\ discarded' = (analysis_results # <<>>)
    /\ UNCHANGED <<api_key, uploaded_images, uploaded_data>>

\* Line 103.
EmitStatus ==
    /\ pc = "status"
    /\ status_text' = [kind |-> "progress", pos |-> idx + 1, total |-> total,
                       name |-> uploaded_images[idx + 1].name]
    /\ pc' = "open"
    /\ UNCHANGED <<api_key, uploaded_images, uploaded_data, analysis_results, df_metrics,
                   progress_bar, errors, exception, display, report>>
    /\ UNCHANGED loopVars

\* Line 106: Image.open, outside any try: on a file PIL cannot identify the
\* exception ends the script run.
OpenImage ==
    /\ pc = "open"
    /\ \E identified \in BOOLEAN :
           IF identified
           THEN /\ pc' = "analyze"
                /\ exception' = "none"
           ELSE /\ pc' = "idle"
                /\ exception' = "UnidentifiedImageError"
    /\ UNCHANGED <<api_key, uploaded_images, uploaded_data, analysis_results, df_metrics,
                   status_text, progress_bar, errors, display, report>>
    /\ UNCHANGED loopVars

\* Line 107: the extractor, with the model's answer r.
Analyze ==
    /\ pc = "analyze"
    /\ \E r \in Replies :
           LET out == analyze_image_with_gemini(uploaded_images[idx + 1].name, r)
           IN  /\ result' = out.result
               /\ errors' = errors \o out.errors
               /\ log' = Append(log, IsObjectReply(r))
    /\ calls' = calls + 1
    /\ pc' = "append"
    /\ UNCHANGED <<api_key, uploaded_images, uploaded_data, analysis_results, df_metrics,
                   status_text, progress_bar, exception, display, report,
                   idx, total, batch, pauses, started, discarded>>

\* A variant of AppendResult without the test of line 109: a failed image
\* leaves an empty entry in the list.
AppendResult_Always ==
    /\ pc = "append"
    /\ analysis_results' = Append(analysis_results, result.items)
    /\ pc' = "sleep"
    /\ UNCHANGED <<api_key, uploaded_images, uploaded_data, df_metrics,
                   status_text, progress_bar, errors, exception, display, report>>
    /\ UNCHANGED loopVars

\* Lines 109-110.
AppendResult ==
    /\ pc = "append"
    /\ analysis_results' = IF ResultTruthy(result)
                           THEN Append(analysis_results, result.items)
                           ELSE analysis_results
    /\ pc' = "sleep"
    /\ UNCHANGED <<api_key, uploaded_images, uploaded_data, df_metrics,
                   status_text, progress_bar, errors, exception, display, report>>
    /\ UNCHANGED loopVars

\* A variant of Sleep with line 113 inside the if of line 109: no pause
\* after a failed image.
Sleep_OnlyOnSuccess ==
    /\ pc = "sleep"
    /\ pauses' = IF ResultTruthy(result) THEN pauses + 1 ELSE pauses
    /\ pc' = "progress"
    /\ UNCHANGED <<api_key, uploaded_images, uploaded_data, analysis_results, df_metrics,
                   status_text, progress_bar, errors, exception, display, report,
                   idx, total, result, batch, log, calls, started, discarded>>

\* Line 113.
Sleep ==
    /\ pc = "sleep"
    /\ pauses' = pauses + 1
    /\ pc' = "progress"
    /\ UNCHANGED <<api_key, uploaded_images, uploaded_data, analysis_results, df_metrics,
                   status_text, progress_bar, errors, exception, display, report,
                   idx, total, result, batch, log, calls, started, discarded>>

\* Line 116, and the loop's step to the next image.
UpdateProgress ==
    /\ pc = "progress"
    /\ progress_bar' = [shown |-> TRUE, done |-> idx + 1, total |-> total]
    /\ idx' = idx + 1
    /\ pc' = IF idx + 1 < total THEN "status" ELSE "finish"
    /\ UNCHANGED <<api_key, uploaded_images, uploaded_data, analysis_results, df_metrics,
                   status_text, errors, exception, display, report,
                   total, result, batch, log, calls, pauses, started, discarded>>

\* Lines 118-119, then the display block of the same run (lines 121-142; the
\* report button reads False in a run the start button triggered).
Finish ==
    /\ pc = "finish"
    /\ status_text' = [kind |-> "done", pos |-> 0, total |-> 0, name |-> <<>>]
    /\ progress_bar' = NoBar
    /\ display' = Render(analysis_results, df_metrics)
    /\ pc' = "idle"
    /\ UNCHANGED <<api_key, uploaded_images, uploaded_data, analysis_results, df_metrics,
                   errors, exception, report>>
    /\ UNCHANGED loopVars

\* The join on its own: the session as a completed batch run without a
\* spreadsheet leaves it, for every image list and every answer per image.
InitJoin ==
    \E images \in ImageLists \ {<<>>} :
        \E rs \in [1..Len(images) -> Replies] :
            LET n == Len(images)
                outs == [i \in 1..n |-> analyze_image_with_gemini(images[i].name, rs[i])]
                good == SelectSeq([i \in 1..n |-> i], LAMBDA i : ResultTruthy(outs[i].result))
            IN  /\ api_key = "key"
                /\ uploaded_images = images
                /\ uploaded_data = NoFile
                /\ analysis_results = [k \in 1..Len(good) |-> outs[good[k]].result.items]
                /\ df_metrics = NoMetrics
                /\ pc = "idle"
                /\ idx = n
                /\ total = n
                /\ result = outs[n].result
                /\ status_text = [kind |-> "done", pos |-> 0, total |-> 0, name |-> <<>>]
                /\ progress_bar = NoBar
                /\ errors = Flatten([i \in 1..n |-> outs[i].errors])
                /\ exception = "none"
                /\ display = Render(analysis_results, NoMetrics)
                /\ report = NoReport
                /\ batch = images
                /\ log = [i \in 1..n |-> IsObjectReply(rs[i])]
                /\ calls = n
                /\ pauses = n
                /\ started = TRUE
                /\ discarded = FALSE

\* The user uploads a first spreadsheet, any of DataFiles.
UploadFirstData ==
    /\ uploaded_data = NoFile
    /\ \E data \in DataFiles \ {NoFile} :
           /\ Rerun(api_key, uploaded_images, data)
           /\ report' = NoReport

NextJoin == UploadFirstData

SpecJoin == InitJoin /\ [][NextJoin]_vars

Next ==
    \/ SetApiKey
    \/ UploadImages
    \/ UploadData
    \/ ClickReport
    \/ ClickStart
    \/ EmitStatus
    \/ OpenImage
    \/ Analyze
    \/ AppendResult
    \/ Sleep
    \/ UpdateProgress
    \/ Finish

Spec == Init /\ [][Next]_vars

\* ------------------------------------------------- the batch run's claims
FilenameOf(items) == IF HasKey(items, cFilename) THEN ValueOf(items, cFilename) ELSE NaN

FilenameCount(items) == Cardinality({i \in 1..Len(items) : items[i].key = cFilename})

\* The number of images of the latest batch run whose append step is behind.
Appended == IF pc = "append" THEN Len(log) - 1 ELSE Len(log)

\* The positions, among the first k images, whose answer was a JSON object.
SuccessIdx(k) == SelectSeq([i \in 1..k |-> i], LAMBDA i : log[i])

BatchDone == pc = "idle" /\ status_text.kind = "done"

\* C1: at every point during and after a batch run the result list is no
\* longer than the number of images processed so far, and its filenames are
\* those of the images whose extraction succeeded, in upload order, with no
\* entry for a failed image.
C1_OrderedSuccesses ==
    LET good == SuccessIdx(Appended)
    IN  /\ Len(log) <= Len(batch)
        /\ Len(batch) <= MaxImages
        /\ Len(analysis_results) <= Appended
        /\ Len(analysis_results) = Len(good)
        /\ \A k \in 1..Len(good) :
               FilenameOf(analysis_results[k]) = Sv(batch[good[k]].name)

C1_Witness ==
    /\ BatchDone
    /\ log = <<FALSE, TRUE>>
    /\ batch[1].name = cBpng
    /\ batch[2].name = cApng
    /\ Len(analysis_results) = 1

\* C2: a batch run, once started, ends only by completing: the script is
\* never idle again with a progress status still standing, every image has
\* been visited and the final status is shown.
C2_BatchAlwaysCompletes ==
    (pc = "idle" /\ started /\ status_text.kind # "none") =>
        /\ status_text.kind = "done"
        /\ ~progress_bar.shown
        /\ calls = Len(batch)

\* C3: every failure while one image is processed is caught: no exception
\* ends the script run, and each failed image has an error message carrying
\* its filename.
C3_EveryFailureCaught ==
    /\ exception = "none"
    /\ (pc # "idle" \/ status_text.kind # "none") =>
           errors = [k \in 1..(Len(log) - Len(SuccessIdx(Len(log)))) |->
                        batch[SelectSeq([i \in 1..Len(log) |-> i], LAMBDA i : ~log[i])[k]].name]

\* C4: the record the extractor returns, and every record in the result
\* list, has exactly one filename field, a non-empty string equal to the
\* name of the image it was extracted from, whatever the model's JSON said.
C4_FilenameStamped ==
    /\ (pc = "append" /\ result.some) =>
           /\ FilenameCount(result.items) = 1
           /\ FilenameOf(result.items) = Sv(uploaded_images[idx + 1].name)
    /\ \A k \in 1..Len(analysis_results) :
           /\ FilenameCount(analysis_results[k]) = 1
           /\ FilenameOf(analysis_results[k]).k = "str"
           /\ FilenameOf(analysis_results[k]).s # <<>>
           /\ FilenameOf(analysis_results[k]).s \in {batch[i].name : i \in 1..Len(batch)}

\* The extractor has just returned for b.png a record built from an answer
\* that named a.png.
C4_Witness ==
    /\ pc = "append"
    /\ result.some
    /\ uploaded_images[idx + 1].name = cBpng
    /\ HasKey(result.items, cMainColor)
    /\ FilenameOf(result.items) = Sv(cBpng)

C5_Step ==
    /\ ~started => analysis_results = <<>>
    /\ Len(analysis_results) <= Len(log)
    /\ IF pc = "idle" /\ pc' = "status"
       THEN analysis_results' = <<>>
       ELSE IF pc = "append"
            THEN \/ analysis_results' = analysis_results
                 \/ /\ Len(analysis_results') = Len(analysis_results) + 1
                    /\ SubSeq(analysis_results', 1, Len(analysis_results)) = analysis_results
            ELSE analysis_results' = analysis_results

\* C5: the result list is empty before the first batch run; starting a batch
\* empties it; only the append step of the batch loop extends it, by one
\* record at its end; every other step (uploads, key changes, the join, the
\* report) leaves it unchanged, so it never holds more than the latest run's
\* records.
C5_OnlyBatchRunnerWrites == [][C5_Step]_vars

\* A second batch run has ended with no success after an earlier run's
\* records were dropped.
C5_Witness ==
    /\ BatchDone
    /\ discarded
    /\ analysis_results = <<>>

\* C9: within a batch run each image goes through status, one call, the
\* append, the pause and the progress update in that order; the pause follows
\* every call, successful or not; a completed run has made one call and one
\* pause per image.
C9_StepOrder ==
    /\ pauses <= calls
    /\ calls <= pauses + 1
    /\ calls = Len(log)
    /\ pc = "status" => calls = idx /\ pauses = idx /\ progress_bar.done = idx
    /\ pc \in {"open", "analyze"} =>
           /\ calls = idx /\ pauses = idx
           /\ status_text = [kind |-> "progress", pos |-> idx + 1, total |-> Len(batch),
                             name |-> batch[idx + 1].name]
    /\ pc \in {"append", "sleep"} =>
           calls = idx + 1 /\ pauses = idx /\ status_text.pos = idx + 1
    /\ pc = "progress" => calls = idx + 1 /\ pauses = idx + 1 /\ progress_bar.done = idx
    /\ (pc = "finish" \/ BatchDone) =>
           calls = Len(batch) /\ pauses = Len(batch) /\ idx = Len(batch)

\* A batch of two has completed although an extraction failed.
C9_Witness ==
    /\ BatchDone
    /\ Len(batch) = 2
    /\ FALSE \in Range(log)
    /\ pauses = 2

\* C10: the table, the join messages and the report exist only while the
\* result list is non-empty; a report run makes one call, on the CSV of the
\* table joined from the current records and the current spreadsheet.
C10_DisplayNeedsResults ==
    /\ display.shown => analysis_results # <<>>
    /\ analysis_results = <<>> =>
           /\ display = NoDisplay
           /\ report = NoReport
           /\ ~ENABLED ClickReport
    /\ report.calls # 0 =>
           /\ report.calls = 1
           /\ display.shown
           /\ report.csv =
                  ToCsv(JoinMetrics(DataFrame(analysis_results),
                                    LoadMetrics(uploaded_data)).final_df)

\* A report was requested on a table joined with the example spreadsheet.
C10_Witness ==
    /\ report.calls = 1
    /\ display.message = "info"
    /\ Len(report.csv) = Len(analysis_results) + 1
    /\ Len(report.csv[1]) > 2

\* --------------------------------------------------------- the join's claims
\* The column names of the layouts that contain one of the four tokens, told
\* by reading them.
QualifyingNames == {cFileName, cFilename, cWenJianMing, cName}

QualifyingAt(cols) == {i \in 1..Len(cols) : cols[i].k = "str" /\ cols[i].s \in QualifyingNames}

Least(S) == CHOOSE i \in S : \A j \in S : i <= j

\* C6: with a spreadsheet loaded, a key is detected exactly when some column
\* name contains a token, and it is the first such column in column order.
C6_FirstQualifyingColumn ==
    (display.shown /\ df_metrics.some) =>
        LET cols == df_metrics.table.columns
            Q == QualifyingAt(cols)
        IN  /\ (Q = {}) <=> (display.message = "warning")
            /\ (Q # {}) <=> (display.message = "info")
            /\ Q # {} => display.metric_key = cols[Least(Q)]
            /\ cols = <<Sv(cID), Sv(cFileName), Sv(cClicks)>> =>
                   display.metric_key = Sv(cFileName)

\* Two columns qualify and the earlier one is the key.
C6_Witness ==
    /\ display.shown
    /\ df_metrics.some
    /\ Cardinality(QualifyingAt(df_metrics.table.columns)) = 2
    /\ display.metric_key = Sv(cWenJianMing)

\* The join as the claims describe it, from the records and the spreadsheet.
RecName(i) == FilenameOf(analysis_results[i]).s
KeyIdx == IndexOf(df_metrics.table.columns, display.metric_key)
Matches(i) ==
    SelectSeq([j \in 1..Len(df_metrics.table.rows) |-> j],
              LAMBDA j : Str(df_metrics.table.rows[j][KeyIdx]) = RecName(i))
Fanout(i) == IF Matches(i) = <<>> THEN 1 ELSE Len(Matches(i))
\* For each output row, the record it comes from and which of the record's
\* matches it carries.
Expected ==
    Flatten([i \in 1..Len(analysis_results) |->
                [t \in 1..Fanout(i) |-> [rec |-> i, t |-> t]]])
LeftWidth == Len(UnionKeys(analysis_results, <<>>))
\* The spreadsheet's columns that appear in the output.
KeptCols ==
    SelectSeq([j \in 1..Len(df_metrics.table.columns) |-> j],
              LAMBDA j : ~(display.metric_key = Sv(cFilename) /\ j = KeyIdx))
KeptLabels ==
    {df_metrics.table.columns[j] : j \in Range(KeptCols)}

RowsAsLeftJoin(out) ==
    /\ Len(out.rows) = Len(Expected)
    /\ Len(out.columns) = LeftWidth + Len(KeptCols)
    /\ \A r \in 1..Len(Expected) :
           LET i == Expected[r].rec
               items == analysis_results[i]
           IN  \* the record's fields are kept
               /\ \A c \in 1..LeftWidth :
                      LET key == UnionKeys(analysis_results, <<>>)[c]
                      IN  out.rows[r][c] =
                              IF HasKey(items, key) THEN ValueOf(items, key) ELSE NaN
               \* the metric fields are null, or those of the matching row
               /\ \A k \in 1..Len(KeptCols) :
                      out.rows[r][LeftWidth + k] =
                          IF Matches(i) = <<>> THEN NaN
                          ELSE LET cell == df_metrics.table.rows[Matches(i)[Expected[r].t]][KeptCols[k]]
                               IN  IF KeptCols[k] = KeyIdx THEN Sv(Str(cell)) ELSE cell

\* C7 as stated: the joined table has every column of the records under its
\* name, and its rows are those of the left outer join on the file name.
C7_LeftJoinKeepsColumns ==
    display.message = "info" =>
        /\ \A i \in 1..Len(analysis_results) :
               \A m \in 1..Len(analysis_results[i]) :
                   Sv(analysis_results[i][m].key) \in Range(display.final_df.columns)
        /\ RowsAsLeftJoin(display.final_df)

\* C7, amended: the rows are those of the left outer join on the file name,
\* one per matching spreadsheet row and one with null metric fields when
\* none matches; every column of the records is there with its values, under
\* its own name unless a spreadsheet column other than the key bears the same
\* name, in which case it carries the suffix _x.
C7_LeftJoinRows ==
    display.message = "info" =>
        /\ \A c \in 1..LeftWidth :
               LET label == Sv(UnionKeys(analysis_results, <<>>)[c])
               IN  display.final_df.columns[c] =
                       IF label \in KeptLabels THEN Suffixed(label, <<"_", "x">>) ELSE label
        /\ RowsAsLeftJoin(display.final_df)

\* One record matches two spreadsheet rows, another none, and the records'
\* filename column had to be renamed.
C7_Witness ==
    /\ display.message = "info"
    /\ \E i \in 1..Len(analysis_results) : Len(Matches(i)) = 2
    /\ \E i \in 1..Len(analysis_results) : Len(Matches(i)) = 0
    /\ Suffixed(Sv(cMainColor), <<"_", "x">>) \in Range(display.final_df.columns)

\* The records as a table, said without DataFrame: one row per record in
\* order, one column per key, a null where a record lacks the key.
IsTableOfRecords(df) ==
    /\ Len(df.rows) = Len(analysis_results)
    /\ Cardinality(Range(df.columns)) = Len(df.columns)
    /\ Range(df.columns) =
           UNION {{Sv(items[m].key) : m \in 1..Len(items)} : items \in Range(analysis_results)}
    /\ \A r \in 1..Len(df.rows) : \A c \in 1..Len(df.columns) :
           df.rows[r][c] = IF HasKey(analysis_results[r], df.columns[c].s)
                           THEN ValueOf(analysis_results[r], df.columns[c].s)
                           ELSE NaN

\* C8: without a join key the table shown is the records' table unchanged;
\* the warning appears exactly when a spreadsheet was loaded and none of its
\* columns qualifies.
C8_NoKeyLeavesRecords ==
    /\ ~display.shown => display.message = "none"
    /\ display.shown =>
           LET nokey == ~df_metrics.some \/ QualifyingAt(df_metrics.table.columns) = {}
           IN  /\ nokey => IsTableOfRecords(display.final_df)
               /\ (display.message = "warning") <=> (df_metrics.some /\ nokey)
    /\ (uploaded_data.present /\ ~uploaded_data.loads) => ~df_metrics.some /\ df_metrics.error

\* Two records are shown beside a spreadsheet without a name column.
C8_Witness ==
    /\ display.shown
    /\ display.message = "warning"
    /\ Len(display.final_df.rows) = 2
    /\ Len(df_metrics.table.rows) > 0

====
